---- MODULE Spec2Model ----
(***************************************************************************)
(* Model of the two IndexedDB transaction logs of transaction-log-idb:     *)
(* IDBBatchedTransactionLog (entries are buffered and committed as a       *)
(* batch) and IDBSimpleTransactionLog (each entry is committed at append). *)
(* One log instance is modelled together with the IndexedDB database of    *)
(* its name.  Every public method is one action; the method's body is an   *)
(* operator of the same name that maps the fields it reads to the fields   *)
(* it writes and to the outcome the caller sees.                           *)
(*                                                                         *)
(* Spec            calls made one at a time, each awaited, on a log        *)
(*                 constructed without callbacks.                          *)
(* SpecNotifying   the same for a log constructed with callbacks.          *)
(* SpecOverlapping append, commit, replay and the range queries of an open *)
(*                 batched log, with each await a step of its own.         *)
(* SpecLifecycle   open, close and clear, with each await a step of its    *)
(*                 own.                                                    *)
(***************************************************************************)
EXTENDS Integers, Sequences, FiniteSets, TLC

\* ---------------------------------------------------------------- bounds
\* Calls of performance.now() in one behaviour.
MaxClock == 3
\* Entries the buffer may hold before the next commit().
MaxBuffer == 2
\* Calls of open(), close() and clear() suspended at an await at one time.
MaxFlight == 2
\* Connections to the database open at one time.
MaxHandles == 2
\* The payloads handed to append().
Data == {"A", "B"}

\* ------------------------------------------------------- program constants
NULL == 0

LOG_CLOSED_MESSAGE == "LogClosed"
LOG_ALREADY_OPEN_MESSAGE == "AlreadyOpen"
LOG_ALREADY_CLOSED_MESSAGE == "AlreadyClosed"
LOG_OPEN_CANNOT_CLEAR_MESSAGE == "CannotClearWhileOpen"
INVALID_SEQUENCE_ID_MESSAGE == "InvalidSequenceId"
FAILED_TO_COMMIT_TRANSACTIONS_MESSAGE == "CommitFailed"
TRANSACTION_NOT_FOUND == "Transaction not found."
OK == "ok"

\* Errors raised by IndexedDB itself and passed on unchanged.
InvalidStateError == "InvalidStateError"
DataError == "DataError"
StoreError == "StoreError"

\* What a callback of this.callbacks throws, when it throws.
HookError == "HookError"

\* What the callback handed to replay() throws, when it throws.
CallbackError == "CallbackError"

VARIABLES
    variant,   \* which class the instance is: "batched" or "simple"
    db,        \* this.db: NULL or the connection held
    buffer,    \* this.buffer (batched only)
    idb,       \* the IndexedDB database named this.dbName
    conns,     \* the open connections to that database
    clock,     \* performance.now()
    last,      \* the last call that may write: name, arguments, outcome, state before
    obs,       \* the query answered in the last step, if that step was a query
    ghost,     \* the calls accepted so far: appends (count and payloads, not yet
               \* committed and committed), successful commits, and whether none
               \* was accepted since the data was last deleted
    hooked,    \* the callback of this.callbacks invoked in the last step, if any
    requests,  \* the open and delete requests the database has not yet served
    closing,   \* the close() calls suspended at `await this.db.close()`
    committing, \* the commit() in flight
    scanning   \* the replay() or range query in flight

\* What only calls that overlap, or a log constructed with callbacks, write.
inFlight == <<hooked, requests, closing, committing, scanning>>

vars == <<variant, db, buffer, idb, conns, clock, last, obs, ghost,
          hooked, requests, closing, committing, scanning>>

\* ------------------------------------------------------------- IndexedDB
\* An object store with keyPath "id" and autoIncrement: its key generator
\* and its records by key.
EmptyStore == [gen |-> 0, recs |-> <<>>]

\* The database before it is first opened, and after deleteDB.
NoDB ==
    [version |-> 0, names |-> {},
     commit |-> EmptyStore, txn |-> EmptyStore, simpletxn |-> EmptyStore]

\* db.createObjectStore(name, {keyPath: "id", autoIncrement: true})
createObjectStore(base, name) ==
    [base EXCEPT !.names = @ \cup {name}, ![name] = EmptyStore]

\* The upgrade callback of the batched log.
upgradeBatched(base) ==
    LET b1 == IF "commit" \notin base.names
                  THEN createObjectStore(base, "commit") ELSE base
        b2 == IF "txn" \notin b1.names
                  THEN createObjectStore(b1, "txn") ELSE b1
    IN  b2

\* The upgrade callback of the simple log.
upgradeSimple(base) ==
    IF "simpletxn" \notin base.names
        THEN createObjectStore(base, "simpletxn") ELSE base

\* An openDB that runs the upgrade on a database emptied first.
openDBRecreates(base, v) ==
    [(IF v = "batched" THEN upgradeBatched(NoDB) ELSE upgradeSimple(NoDB))
        EXCEPT !.version = 1]

\* openDB(name, 1, {upgrade}): upgrade runs when the stored version is older.
openDB(base, v) ==
    IF base.version < 1
        THEN [(IF v = "batched" THEN upgradeBatched(base) ELSE upgradeSimple(base))
                  EXCEPT !.version = 1]
        ELSE base

\* The connection openDB hands out: one no open connection has.
FreshHandle(cs) == CHOOSE h \in 1..(Cardinality(cs) + 1) : h \notin cs

\* store.add(value): the key generator is advanced and a copy of the value,
\* with the new key written to its keyPath "id", is stored under that key.
StoreAdd(os, value) ==
    LET k == os.gen + 1
    IN  [gen |-> k,
         recs |-> os.recs @@ (k :> (("id" :> k) @@ value))]

\* deleteDB(name)
deleteDB(base) == NoDB

\* An abort that leaves the writes already made in the store.
TxAbortKeepsWrites(base, working) == working

\* An abort that reverts the records written but not the key generators.
TxAbortKeepsKeys(base, working) ==
    [base EXCEPT !.txn.gen = working.txn.gen,
                 !.commit.gen = working.commit.gen,
                 !.simpletxn.gen = working.simpletxn.gen]

\* A transaction that ends in abort: every write and every key it generated
\* is reverted.
TxAbort(base, working) == base

\* A completion that makes the transactions durable but not the commit record.
TxCompleteLosesCommit(base, working) == [working EXCEPT !.commit = base.commit]

\* A transaction that completes: its writes become durable.
TxComplete(base, working) == working

\* A cursor that walks the keys hi..lo, largest key first.
RECURSIVE CursorDescending(_, _, _)
CursorDescending(os, lo, hi) ==
    IF lo > hi \/ lo > os.gen THEN <<>>
    ELSE IF lo \in DOMAIN os.recs
        THEN CursorDescending(os, lo + 1, hi) \o <<os.recs[lo]>>
        ELSE CursorDescending(os, lo + 1, hi)

\* Forward cursor over the keys lo..hi of a store, as the records in key order.
RECURSIVE Cursor(_, _, _)
Cursor(os, lo, hi) ==
    IF lo > hi \/ lo > os.gen THEN <<>>
    ELSE IF lo \in DOMAIN os.recs
        THEN <<os.recs[lo]>> \o Cursor(os, lo + 1, hi)
        ELSE Cursor(os, lo + 1, hi)

\* db.count(storeName)
Count(os) == Cardinality(DOMAIN os.recs)

\* db.get(storeName, key): the record, or undefined (the empty sequence here).
Get(os, key) == IF key \in DOMAIN os.recs THEN <<os.recs[key]>> ELSE <<>>

\* The optional finishId: <<>> when the argument is omitted.  JavaScript's
\* if (finishId) also takes 0 for omitted.
Truthy(finishId) == finishId # <<>> /\ finishId[1] # 0

\* The range the two range queries build: IDBKeyRange.bound(startId, finishId)
\* or IDBKeyRange.lowerBound(startId).  bound() throws DataError when the
\* lower key is greater than the upper key.
\* upper is <<>> for a range with no upper bound.
KeyRange(startId, finishId) ==
    IF Truthy(finishId)
        THEN IF startId > finishId[1]
                 THEN [error |-> DataError, lower |-> startId, upper |-> finishId]
                 ELSE [error |-> OK, lower |-> startId, upper |-> finishId]
        ELSE [error |-> OK, lower |-> startId, upper |-> <<>>]

\* store.openCursor(range) followed to its end.
OpenCursor(os, range) ==
    Cursor(os, range.lower, IF range.upper = <<>> THEN os.gen ELSE range.upper[1])

\* ---------------------------------------------- IDBBatchedTransactionLog
isOpen(d) == d # NULL

\* open() without the already-open check.
openUnchecked(d, base, cs) ==
    LET h == FreshHandle(cs)
    IN  [result |-> OK, db |-> h, idb |-> openDB(base, "batched"),
         conns |-> cs \cup {h}]

open(d, base, cs) ==
    IF d # NULL
        THEN [result |-> LOG_ALREADY_OPEN_MESSAGE, db |-> d, idb |-> base, conns |-> cs]
        ELSE LET h == FreshHandle(cs)
             IN  [result |-> OK, db |-> h, idb |-> openDB(base, "batched"),
                  conns |-> cs \cup {h}]

close(d, cs) ==
    IF d = NULL
        THEN [result |-> LOG_ALREADY_CLOSED_MESSAGE, db |-> d, conns |-> cs]
        ELSE [result |-> OK, db |-> NULL, conns |-> cs \ {d}]

\* clear() without the open check.
clearUnchecked(d, base) == [result |-> OK, idb |-> deleteDB(base)]

clear(d, base) ==
    IF d # NULL
        THEN [result |-> LOG_OPEN_CANNOT_CLEAR_MESSAGE, idb |-> base]
        ELSE [result |-> OK, idb |-> deleteDB(base)]

countCommits(d, base) ==
    IF d = NULL
        THEN [result |-> LOG_CLOSED_MESSAGE, out |-> <<>>]
        ELSE [result |-> OK, out |-> <<Count(base.commit)>>]

countTransactions(d, base) ==
    IF d = NULL
        THEN [result |-> LOG_CLOSED_MESSAGE, out |-> <<>>]
        ELSE [result |-> OK, out |-> <<Count(base.txn)>>]

\* append() without the closed check.
appendUnchecked(d, buf, data, now) ==
    [result |-> OK,
     buffer |-> Append(buf, [time |-> now, data |-> data]),
     ticks |-> 1]

append(d, buf, data, now) ==
    IF d = NULL
        THEN [result |-> LOG_CLOSED_MESSAGE, buffer |-> buf, ticks |-> 0]
        ELSE [result |-> OK,
              buffer |-> Append(buf, [time |-> now, data |-> data]),
              ticks |-> 1]

\* Promise.all over the buffer that misses the first buffered entry.
RECURSIVE AddAllSkipsFirst(_, _, _)
AddAllSkipsFirst(os, buf, n) ==
    IF n <= 1 THEN [store |-> os, ids |-> <<>>]
    ELSE LET r == AddAllSkipsFirst(os, buf, n - 1)
             s == StoreAdd(r.store, buf[n])
         IN  [store |-> s, ids |-> Append(r.ids, s.gen)]

\* Promise.all(this.buffer.map(txn => txnStore.add(txn))): the first n adds
\* reach the store, in buffer order; ids are the keys they were given.
RECURSIVE AddAll(_, _, _)
AddAll(os, buf, n) ==
    IF n = 0 THEN [store |-> os, ids |-> <<>>]
    ELSE LET r == AddAll(os, buf, n - 1)
             s == StoreAdd(r.store, buf[n])
         IN  [store |-> s, ids |-> Append(r.ids, s.gen)]

\* An end of commit() that empties the buffer before it looks at the commit id.
commitTailClearsFirst(commitId, buf) ==
    IF commitId = 0
        THEN [result |-> FAILED_TO_COMMIT_TRANSACTIONS_MESSAGE, buffer |-> <<>>]
        ELSE [result |-> OK, buffer |-> <<>>]

\* An end of commit() that also refuses an empty buffer.
commitTailRefusesEmpty(commitId, buf) ==
    IF commitId = 0 \/ buf = <<>>
        THEN [result |-> FAILED_TO_COMMIT_TRANSACTIONS_MESSAGE, buffer |-> buf]
        ELSE [result |-> OK, buffer |-> <<>>]

\* The end of commit(): no commit id means failure, otherwise the buffer is
\* emptied.
commitTail(commitId, buf) ==
    IF commitId = 0
        THEN [result |-> FAILED_TO_COMMIT_TRANSACTIONS_MESSAGE, buffer |-> buf]
        ELSE [result |-> OK, buffer |-> <<>>]

\* A catch block that swallows what tx.abort() throws.
commitCatchSwallows(finished) == OK

\* The catch block of commit(): tx.abort().  abort() on a transaction that
\* has already finished throws InvalidStateError, which leaves commit().
commitCatch(finished) == IF finished THEN InvalidStateError ELSE OK

\* commit().  failAt names the request of the store transaction that fails:
\* 0 none, i in 1..Len(buf) the add of the i-th buffered entry, Len(buf)+1
\* the add of the commit record, Len(buf)+2 the completion awaited as
\* tx.done (the store aborts the transaction while committing it).
commit(d, buf, base, now, failAt) ==
    IF d = NULL
        THEN [result |-> LOG_CLOSED_MESSAGE, buffer |-> buf, idb |-> base, ticks |-> 0]
        ELSE
    LET n == Len(buf)
        step1ok == failAt \notin 1..n
        added == AddAll(base.txn, buf, IF step1ok THEN n ELSE failAt - 1)
        w1 == [base EXCEPT !.txn = added.store]
        commitRec == [time |-> now, transactions |-> added.ids]
        step2ok == step1ok /\ failAt # n + 1
        w2 == IF step2ok
                  THEN [w1 EXCEPT !.commit = StoreAdd(w1.commit, commitRec)]
                  ELSE w1
        commitId == IF step2ok THEN w2.commit.gen ELSE 0
        step3ok == step2ok /\ failAt # n + 2
        caught == commitCatch(step2ok)
        tail == commitTail(commitId, buf)
        ticks == IF step1ok THEN 1 ELSE 0
    IN  IF step3ok
            THEN [result |-> tail.result, buffer |-> tail.buffer,
                  idb |-> TxComplete(base, w2), ticks |-> ticks]
        ELSE IF caught # OK
            THEN [result |-> caught, buffer |-> buf,
                  idb |-> TxAbort(base, w2), ticks |-> ticks]
            ELSE [result |-> tail.result, buffer |-> tail.buffer,
                  idb |-> TxAbort(base, w2), ticks |-> ticks]

\* The data of the records a cursor delivers, in the order delivered.
DataOf(recs) == [i \in 1..Len(recs) |-> recs[i].data]

\* A cursor loop that catches what the callback throws and goes on.
DeliverCatches(recs, throwAt) ==
    [result |-> OK, out |-> DataOf(recs)]

\* The cursor loop of replay(): callback(txn.data) for each record in cursor
\* order.  throwAt is the call at which the callback throws (0, or a number
\* beyond the records: it never throws); the exception leaves the loop and
\* replay().  out is the data the callback was called with.
Deliver(recs, throwAt) ==
    IF throwAt \in 1..Len(recs)
        THEN [result |-> CallbackError, out |-> DataOf(SubSeq(recs, 1, throwAt))]
        ELSE [result |-> OK, out |-> DataOf(recs)]

replay(d, base, throwAt) ==
    IF d = NULL
        THEN [result |-> LOG_CLOSED_MESSAGE, out |-> <<>>]
        ELSE Deliver(OpenCursor(base.txn, KeyRange(1, <<>>)), throwAt)

\* The inner loop of getSeqRangeCommits: db.get("txn", id) for each id of a
\* commit, in the commit's order; missing is set when one is not found.
RECURSIVE Resolve(_, _, _)
Resolve(os, ids, n) ==
    IF n = 0 THEN [missing |-> FALSE, transactions |-> <<>>]
    ELSE LET r == Resolve(os, ids, n - 1)
             t == Get(os, ids[n])
         IN  IF r.missing \/ t = <<>>
                 THEN [missing |-> TRUE, transactions |-> r.transactions]
                 ELSE [missing |-> FALSE, transactions |-> r.transactions \o t]

CommitInfoOf(base, c) ==
    LET r == Resolve(base.txn, c.transactions, Len(c.transactions))
    IN  [missing |-> r.missing,
         info |-> [id |-> c.id, time |-> c.time, transactions |-> r.transactions]]

\* getSeqRangeCommits() without the check of startId.
getSeqRangeCommitsUnchecked(d, base, startId, finishId) ==
    IF d = NULL THEN [result |-> LOG_CLOSED_MESSAGE, out |-> <<>>]
    ELSE
    LET range == KeyRange(startId, finishId)
        commits == OpenCursor(base.commit, range)
        infos == [i \in 1..Len(commits) |-> CommitInfoOf(base, commits[i])]
    IN  IF range.error # OK THEN [result |-> range.error, out |-> <<>>]
        ELSE IF \E i \in 1..Len(infos) : infos[i].missing
            THEN [result |-> TRANSACTION_NOT_FOUND, out |-> <<>>]
            ELSE [result |-> OK, out |-> [i \in 1..Len(infos) |-> infos[i].info]]

getSeqRangeCommits(d, base, startId, finishId) ==
    IF d = NULL THEN [result |-> LOG_CLOSED_MESSAGE, out |-> <<>>]
    ELSE IF startId < 1 THEN [result |-> INVALID_SEQUENCE_ID_MESSAGE, out |-> <<>>]
    ELSE
    LET range == KeyRange(startId, finishId)
        commits == OpenCursor(base.commit, range)
        infos == [i \in 1..Len(commits) |-> CommitInfoOf(base, commits[i])]
    IN  IF range.error # OK THEN [result |-> range.error, out |-> <<>>]
        ELSE IF \E i \in 1..Len(infos) : infos[i].missing
            THEN [result |-> TRANSACTION_NOT_FOUND, out |-> <<>>]
            ELSE [result |-> OK, out |-> [i \in 1..Len(infos) |-> infos[i].info]]

getSeqRangeTransactions(d, base, startId, finishId) ==
    IF d = NULL THEN [result |-> LOG_CLOSED_MESSAGE, out |-> <<>>]
    ELSE
    LET range == KeyRange(startId, finishId)
    IN  IF range.error # OK THEN [result |-> range.error, out |-> <<>>]
        ELSE [result |-> OK, out |-> OpenCursor(base.txn, range)]

\* ----------------------------------------------- IDBSimpleTransactionLog
simpleIsOpen(d) == d # NULL

simpleOpen(d, base, cs) ==
    IF d # NULL
        THEN [result |-> LOG_ALREADY_OPEN_MESSAGE, db |-> d, idb |-> base, conns |-> cs]
        ELSE LET h == FreshHandle(cs)
             IN  [result |-> OK, db |-> h, idb |-> openDB(base, "simple"),
                  conns |-> cs \cup {h}]

\* close() that releases the connection but keeps this.db.
simpleCloseKeepsHandle(d, cs) ==
    IF d = NULL
        THEN [result |-> LOG_ALREADY_CLOSED_MESSAGE, db |-> d, conns |-> cs]
        ELSE [result |-> OK, db |-> d, conns |-> cs \ {d}]

simpleClose(d, cs) ==
    IF d = NULL
        THEN [result |-> LOG_ALREADY_CLOSED_MESSAGE, db |-> d, conns |-> cs]
        ELSE [result |-> OK, db |-> NULL, conns |-> cs \ {d}]

simpleClear(d, base) ==
    IF d # NULL
        THEN [result |-> LOG_OPEN_CANNOT_CLEAR_MESSAGE, idb |-> base]
        ELSE [result |-> OK, idb |-> deleteDB(base)]

simpleCountTransactions(d, base) ==
    IF d = NULL
        THEN [result |-> LOG_CLOSED_MESSAGE, out |-> <<>>]
        ELSE [result |-> OK, out |-> <<Count(base.simpletxn)>>]

\* An append() that awaits the add alone, not tx.done.
simpleAppendIgnoresDone(d, base, data, now, failAt) ==
    IF d = NULL
        THEN [result |-> LOG_CLOSED_MESSAGE, idb |-> base, ticks |-> 0]
        ELSE
    LET txn == [time |-> now, data |-> data]
        w == IF failAt = 1 THEN base
             ELSE [base EXCEPT !.simpletxn = StoreAdd(base.simpletxn, txn)]
    IN  IF failAt = 0
            THEN [result |-> OK, idb |-> TxComplete(base, w), ticks |-> 1]
        ELSE IF failAt = 1
            THEN [result |-> StoreError, idb |-> TxAbort(base, w), ticks |-> 1]
            ELSE [result |-> OK, idb |-> TxAbort(base, w), ticks |-> 1]

\* append(): Promise.all([tx.store.add(txn), tx.done]).  failAt: 0 none,
\* 1 the add fails, 2 the transaction aborts while committing.  Either
\* failure aborts the transaction and rejects with the store's error.
simpleAppend(d, base, data, now, failAt) ==
    IF d = NULL
        THEN [result |-> LOG_CLOSED_MESSAGE, idb |-> base, ticks |-> 0]
        ELSE
    LET txn == [time |-> now, data |-> data]
        w == IF failAt = 1 THEN base
             ELSE [base EXCEPT !.simpletxn = StoreAdd(base.simpletxn, txn)]
    IN  IF failAt = 0
            THEN [result |-> OK, idb |-> TxComplete(base, w), ticks |-> 1]
            ELSE [result |-> StoreError, idb |-> TxAbort(base, w), ticks |-> 1]

simpleReplay(d, base, throwAt) ==
    IF d = NULL
        THEN [result |-> LOG_CLOSED_MESSAGE, out |-> <<>>]
        ELSE Deliver(OpenCursor(base.simpletxn, KeyRange(1, <<>>)), throwAt)

simpleGetSeqRangeTransactions(d, base, startId, finishId) ==
    IF d = NULL THEN [result |-> LOG_CLOSED_MESSAGE, out |-> <<>>]
    ELSE
    LET range == KeyRange(startId, finishId)
    IN  IF range.error # OK THEN [result |-> range.error, out |-> <<>>]
        ELSE [result |-> OK, out |-> OpenCursor(base.simpletxn, range)]

\* ------------------------------------------------------------ the calls
\* Arguments of the range queries.
StartIds == {0, 1, 2}
FinishIds == {<<>>, <<0>>, <<1>>, <<2>>}

\* The call at which the callback handed to replay() throws; 0: at none.
ThrowAts == {0, 1, 2}

\* No callback was invoked in the last step.
NoHook == [name |-> "none", threw |-> FALSE]

\* No commit() and no scan is in flight.
Idle == [phase |-> "idle"]

\* A callback of this.callbacks: not given to the constructor, one that
\* returns, one that throws.
Hooks == {"absent", "returns", "throws"}

\* A callback whose exception undoes what the method did before calling it.
NotifyRollsBack(name, hook, pre, r) ==
    IF r.result # OK \/ hook = "absent"
        THEN [outcome |-> r, hooked |-> NoHook]
        ELSE [outcome |-> IF hook = "throws"
                              THEN [pre EXCEPT !.result = HookError] ELSE r,
              hooked |-> [name |-> name, threw |-> hook = "throws"]]

\* this.callbacks.<name>?.apply(this), the last statement of open, close,
\* clear and append.  r is what the method has done when it reaches that
\* statement, which it does not when it has thrown before; pre is the same
\* with nothing done.  What the callback throws leaves the method.
Notify(name, hook, pre, r) ==
    IF r.result # OK \/ hook = "absent"
        THEN [outcome |-> r, hooked |-> NoHook]
        ELSE [outcome |-> IF hook = "throws"
                              THEN [r EXCEPT !.result = HookError] ELSE r,
              hooked |-> [name |-> name, threw |-> hook = "throws"]]

\* No query was answered in the last step.
NoObs == [op |-> "none", args |-> <<>>, result |-> OK, out |-> <<>>]

\* The call is no retry of a failed commit() and no reopening after close().
NoPrior == [op |-> "none", result |-> OK, preBuffer |-> <<>>, preIdb |-> NoDB]

\* The record of a call of open, close, clear, append or commit: its
\* arguments, how it ended, the state it started in and, for a commit() that
\* directly follows a failed commit() on the open log and for an open() that
\* directly follows a successful close(), that earlier call.  Of a call that
\* was suspended at an await the record is made when the call ends, and the
\* state recorded is the one its last step started in.
Called(op, args, result) ==
    [op |-> op, args |-> args, result |-> result,
     preDb |-> db, preBuffer |-> buffer, preIdb |-> idb, preConns |-> conns,
     prior |-> IF \/ /\ op = "commit" /\ last.op = "commit"
                     /\ last.result \notin {OK, LOG_CLOSED_MESSAGE}
                  \/ /\ op = "open" /\ last.op = "close" /\ last.result = OK
                   THEN [op |-> last.op, result |-> last.result,
                         preBuffer |-> last.preBuffer, preIdb |-> last.preIdb]
                   ELSE NoPrior]

Init ==
    /\ variant \in {"batched", "simple"}
    /\ db = NULL
    /\ buffer = <<>>
    /\ idb = NoDB
    /\ conns = {}
    /\ clock = 0
    /\ ghost = [pending |-> 0, committed |-> 0, commits |-> 0,
                pendingData |-> <<>>, durableData |-> <<>>, fresh |-> TRUE]
    /\ obs = NoObs
    /\ hooked = NoHook
    /\ requests = <<>>
    /\ closing = 0
    /\ committing = Idle
    /\ scanning = Idle
    /\ last = [op |-> "new", args |-> <<>>, result |-> OK,
               preDb |-> NULL, preBuffer |-> <<>>, preIdb |-> NoDB, preConns |-> {},
               prior |-> NoPrior]

\* A query: it writes no field of the log and nothing to the database.
Reads(op, args, r) ==
    /\ obs' = [op |-> op, args |-> args, result |-> r.result, out |-> r.out]
    /\ UNCHANGED <<inFlight, variant, db, buffer, idb, conns, clock, last, ghost>>

IsOpen ==
    /\ variant = "batched"
    /\ Reads("isOpen", <<>>, [result |-> OK, out |-> <<isOpen(db)>>])

Open ==
    /\ variant = "batched"
    /\ LET r == open(db, idb, conns)
       IN  /\ db' = r.db
           /\ idb' = r.idb
           /\ conns' = r.conns
           /\ last' = Called("open", <<>>, r.result)
           /\ obs' = NoObs
    /\ UNCHANGED <<inFlight, variant, buffer, clock, ghost>>

Close ==
    /\ variant = "batched"
    /\ LET r == close(db, conns)
       IN  /\ db' = r.db
           /\ conns' = r.conns
           /\ last' = Called("close", <<>>, r.result)
           /\ obs' = NoObs
    /\ UNCHANGED <<inFlight, variant, buffer, idb, clock, ghost>>

Clear ==
    /\ variant = "batched"
    /\ LET r == clear(db, idb)
       IN  /\ idb' = r.idb
           /\ last' = Called("clear", <<>>, r.result)
           /\ obs' = NoObs
           /\ ghost' = IF r.result = OK
                           THEN [ghost EXCEPT !.committed = 0, !.commits = 0,
                                              !.durableData = <<>>,
                                              !.fresh = TRUE]
                           ELSE ghost
    /\ UNCHANGED <<inFlight, variant, db, buffer, conns, clock>>

CountCommits ==
    /\ variant = "batched"
    /\ Reads("countCommits", <<>>, countCommits(db, idb))

CountTransactions ==
    /\ variant = "batched"
    /\ Reads("countTransactions", <<>>, countTransactions(db, idb))

AppendData ==
    /\ variant = "batched"
    /\ db = NULL \/ (clock < MaxClock /\ Len(buffer) < MaxBuffer)
    /\ \E data \in Data :
         LET r == append(db, buffer, data, clock)
         IN  /\ buffer' = r.buffer
             /\ clock' = clock + r.ticks
             /\ last' = Called("append", <<data>>, r.result)
             /\ obs' = NoObs
             /\ ghost' = IF r.result = OK
                             THEN [ghost EXCEPT !.pending = @ + 1,
                                                !.pendingData = Append(@, data),
                                                !.fresh = FALSE]
                             ELSE ghost
    /\ UNCHANGED <<inFlight, variant, db, idb, conns>>

Commit ==
    /\ variant = "batched"
    /\ db = NULL \/ clock < MaxClock
    /\ \E failAt \in 0..(Len(buffer) + 2) :
         LET r == commit(db, buffer, idb, clock, failAt)
         IN  /\ buffer' = r.buffer
             /\ idb' = r.idb
             /\ clock' = clock + r.ticks
             /\ last' = Called("commit", <<failAt>>, r.result)
             /\ obs' = NoObs
             /\ ghost' = IF r.result = OK
                             THEN [pending |-> 0,
                                   committed |-> ghost.committed + ghost.pending,
                                   commits |-> ghost.commits + 1,
                                   pendingData |-> <<>>,
                                   durableData |->
                                       ghost.durableData \o ghost.pendingData,
                                   fresh |-> ghost.fresh]
                             ELSE ghost
    /\ hooked' = NoHook
    /\ UNCHANGED <<variant, db, conns, requests, closing, committing, scanning>>

Replay ==
    /\ variant = "batched"
    /\ \E throwAt \in ThrowAts :
         Reads("replay", <<throwAt>>, replay(db, idb, throwAt))

GetSeqRangeCommits ==
    /\ variant = "batched"
    /\ \E startId \in StartIds, finishId \in FinishIds :
         Reads("getSeqRangeCommits", <<startId>> \o finishId,
               getSeqRangeCommits(db, idb, startId, finishId))

GetSeqRangeTransactions ==
    /\ variant = "batched"
    /\ \E startId \in StartIds, finishId \in FinishIds :
         Reads("getSeqRangeTransactions", <<startId>> \o finishId,
               getSeqRangeTransactions(db, idb, startId, finishId))

SimpleIsOpen ==
    /\ variant = "simple"
    /\ Reads("isOpen", <<>>, [result |-> OK, out |-> <<simpleIsOpen(db)>>])

SimpleOpen ==
    /\ variant = "simple"
    /\ LET r == simpleOpen(db, idb, conns)
       IN  /\ db' = r.db
           /\ idb' = r.idb
           /\ conns' = r.conns
           /\ last' = Called("open", <<>>, r.result)
           /\ obs' = NoObs
    /\ UNCHANGED <<inFlight, variant, buffer, clock, ghost>>

SimpleClose ==
    /\ variant = "simple"
    /\ LET r == simpleClose(db, conns)
       IN  /\ db' = r.db
           /\ conns' = r.conns
           /\ last' = Called("close", <<>>, r.result)
           /\ obs' = NoObs
    /\ UNCHANGED <<inFlight, variant, buffer, idb, clock, ghost>>

SimpleClear ==
    /\ variant = "simple"
    /\ LET r == simpleClear(db, idb)
       IN  /\ idb' = r.idb
           /\ last' = Called("clear", <<>>, r.result)
           /\ obs' = NoObs
           /\ ghost' = IF r.result = OK
                           THEN [ghost EXCEPT !.committed = 0, !.commits = 0,
                                              !.durableData = <<>>,
                                              !.fresh = TRUE]
                           ELSE ghost
    /\ UNCHANGED <<inFlight, variant, db, buffer, conns, clock>>

SimpleCountTransactions ==
    /\ variant = "simple"
    /\ Reads("countTransactions", <<>>, simpleCountTransactions(db, idb))

SimpleAppend ==
    /\ variant = "simple"
    /\ db = NULL \/ clock < MaxClock
    /\ \E data \in Data, failAt \in 0..2 :
         LET r == simpleAppend(db, idb, data, clock, failAt)
         IN  /\ idb' = r.idb
             /\ clock' = clock + r.ticks
             /\ last' = Called("append", <<data, failAt>>, r.result)
             /\ obs' = NoObs
             /\ ghost' = IF r.result = OK
                             THEN [ghost EXCEPT !.committed = @ + 1,
                                                !.durableData = Append(@, data),
                                                !.fresh = FALSE]
                             ELSE ghost
    /\ UNCHANGED <<inFlight, variant, db, buffer, conns>>

SimpleReplay ==
    /\ variant = "simple"
    /\ \E throwAt \in ThrowAts :
         Reads("replay", <<throwAt>>, simpleReplay(db, idb, throwAt))

SimpleGetSeqRangeTransactions ==
    /\ variant = "simple"
    /\ \E startId \in StartIds, finishId \in FinishIds :
         Reads("getSeqRangeTransactions", <<startId>> \o finishId,
               simpleGetSeqRangeTransactions(db, idb, startId, finishId))

Next ==
    \/ IsOpen \/ Open \/ Close \/ Clear
    \/ CountCommits \/ CountTransactions
    \/ AppendData \/ Commit \/ Replay
    \/ GetSeqRangeCommits \/ GetSeqRangeTransactions
    \/ SimpleIsOpen \/ SimpleOpen \/ SimpleClose \/ SimpleClear
    \/ SimpleCountTransactions \/ SimpleAppend \/ SimpleReplay
    \/ SimpleGetSeqRangeTransactions

Spec == Init /\ [][Next]_vars

\* ------------------------------------------- a log given callbacks
\* The calls of a log constructed with callbacks, one call at a time.
OpenNotifying ==
    \E hook \in Hooks :
        LET r == IF variant = "batched" THEN open(db, idb, conns)
                                        ELSE simpleOpen(db, idb, conns)
            pre == [result |-> OK, db |-> db, idb |-> idb, conns |-> conns]
            n == Notify("onopen", hook, pre, r)
        IN  /\ db' = n.outcome.db
            /\ idb' = n.outcome.idb
            /\ conns' = n.outcome.conns
            /\ last' = Called("open", <<>>, n.outcome.result)
            /\ hooked' = n.hooked
            /\ obs' = NoObs
            /\ UNCHANGED <<variant, buffer, clock, ghost,
                           requests, closing, committing, scanning>>

CloseNotifying ==
    \E hook \in Hooks :
        LET r == IF variant = "batched" THEN close(db, conns)
                                        ELSE simpleClose(db, conns)
            pre == [result |-> OK, db |-> db, conns |-> conns]
            n == Notify("onclose", hook, pre, r)
        IN  /\ db' = n.outcome.db
            /\ conns' = n.outcome.conns
            /\ last' = Called("close", <<>>, n.outcome.result)
            /\ hooked' = n.hooked
            /\ obs' = NoObs
            /\ UNCHANGED <<variant, buffer, idb, clock, ghost,
                           requests, closing, committing, scanning>>

ClearNotifying ==
    \E hook \in Hooks :
        LET r == IF variant = "batched" THEN clear(db, idb)
                                        ELSE simpleClear(db, idb)
            pre == [result |-> OK, idb |-> idb]
            n == Notify("onclear", hook, pre, r)
        IN  /\ idb' = n.outcome.idb
            /\ last' = Called("clear", <<>>, n.outcome.result)
            /\ hooked' = n.hooked
            /\ obs' = NoObs
            /\ ghost' = IF r.result = OK
                            THEN [ghost EXCEPT !.committed = 0, !.commits = 0,
                                               !.durableData = <<>>,
                                               !.fresh = TRUE]
                            ELSE ghost
            /\ UNCHANGED <<variant, db, buffer, conns, clock,
                           requests, closing, committing, scanning>>

AppendNotifying ==
    /\ variant = "batched"
    /\ db = NULL \/ (clock < MaxClock /\ Len(buffer) < MaxBuffer)
    /\ \E data \in Data, hook \in Hooks :
         LET r == append(db, buffer, data, clock)
             pre == [result |-> OK, buffer |-> buffer, ticks |-> r.ticks]
             n == Notify("onappend", hook, pre, r)
         IN  /\ buffer' = n.outcome.buffer
             /\ clock' = clock + n.outcome.ticks
             /\ last' = Called("append", <<data>>, n.outcome.result)
             /\ hooked' = n.hooked
             /\ obs' = NoObs
             /\ ghost' = IF r.result = OK
                             THEN [ghost EXCEPT !.pending = @ + 1,
                                                !.pendingData = Append(@, data),
                                                !.fresh = FALSE]
                             ELSE ghost
    /\ UNCHANGED <<variant, db, idb, conns,
                   requests, closing, committing, scanning>>

SimpleAppendNotifying ==
    /\ variant = "simple"
    /\ db = NULL \/ clock < MaxClock
    /\ \E data \in Data, failAt \in 0..2, hook \in Hooks :
         LET r == simpleAppend(db, idb, data, clock, failAt)
             pre == [result |-> OK, idb |-> idb, ticks |-> r.ticks]
             n == Notify("onappend", hook, pre, r)
         IN  /\ idb' = n.outcome.idb
             /\ clock' = clock + n.outcome.ticks
             /\ last' = Called("append", <<data, failAt>>, n.outcome.result)
             /\ hooked' = n.hooked
             /\ obs' = NoObs
             /\ ghost' = IF r.result = OK
                             THEN [ghost EXCEPT !.committed = @ + 1,
                                                !.durableData = Append(@, data),
                                                !.fresh = FALSE]
                             ELSE ghost
    /\ UNCHANGED <<variant, db, buffer, conns,
                   requests, closing, committing, scanning>>

NextNotifying ==
    \/ OpenNotifying \/ CloseNotifying \/ ClearNotifying
    \/ AppendNotifying \/ SimpleAppendNotifying
    \/ Commit

SpecNotifying == Init /\ [][NextNotifying]_vars

\* ------------------------------------- overlapping calls on an open log
\* The calls of an open batched log when a call is made before an earlier one
\* has resolved: each await of commit(), replay() and the range queries is a
\* step of its own, append() is synchronous.  One commit() and one query are
\* in flight at most.

\* The database an earlier page left: open(); append("A"); commit().
Earlier ==
    commit(1, append(1, <<>>, "A", 0).buffer, openDB(NoDB, "batched"), 1, 0).idb

InitOverlapping ==
    /\ variant = "batched"
    /\ \E base \in {NoDB, Earlier} :
         LET r == open(NULL, base, {})
         IN  /\ db = r.db
             /\ idb = r.idb
             /\ conns = r.conns
             /\ ghost = [pending |-> 0, committed |-> Count(base.txn),
                         commits |-> Count(base.commit),
                         pendingData |-> <<>>,
                         durableData |-> DataOf(OpenCursor(base.txn, KeyRange(1, <<>>))),
                         fresh |-> base = NoDB]
             /\ last = [op |-> "open", args |-> <<>>, result |-> r.result,
                        preDb |-> NULL, preBuffer |-> <<>>, preIdb |-> base,
                        preConns |-> {}, prior |-> NoPrior]
    /\ buffer = <<>>
    /\ clock = 0
    /\ obs = NoObs
    /\ hooked = NoHook
    /\ requests = <<>>
    /\ closing = 0
    /\ committing = Idle
    /\ scanning = Idle

\* A store transaction that starts whenever its first request is placed.
MayRunAtOnce(behind) == TRUE

\* db.transaction(): a transaction created while one whose scope overlaps
\* its own is live, one of the two being readwrite, starts when that one
\* has finished.  behind: such a transaction is live.
MayRun(behind) == ~behind

CommitTxLive == committing.phase # "idle"
ScanTxLive == scanning.phase # "idle"

\* commit() up to its first await: the readwrite transaction is created and
\* one add per entry of this.buffer is placed on it.
CommitBegin ==
    /\ variant = "batched" /\ db # NULL
    /\ ~CommitTxLive
    /\ committing' = [phase |-> "created", buf |-> buffer, now |-> 0,
                      cut |-> Len(ghost.pendingData), behind |-> ScanTxLive]
    /\ scanning' = IF ScanTxLive THEN [scanning EXCEPT !.overlap = TRUE]
                                 ELSE scanning
    /\ obs' = NoObs
    /\ UNCHANGED <<variant, db, buffer, idb, conns, clock, last, ghost,
                   hooked, requests, closing>>

\* The adds have been answered.  When one failed, the Promise.all rejects and
\* commit() ends through its catch block; otherwise the commit record is
\* built, with performance.now(), and its add is placed.
CommitAdded ==
    /\ committing.phase = "created"
    /\ MayRun(committing.behind)
    /\ clock < MaxClock
    /\ \E failAt \in 0..Len(committing.buf) :
         IF failAt = 0
             THEN /\ committing' = [committing EXCEPT !.phase = "added",
                                                      !.now = clock]
                  /\ clock' = clock + 1
                  /\ UNCHANGED <<idb, last, scanning>>
             ELSE LET r == commit(db, committing.buf, idb, clock, failAt)
                  IN  /\ idb' = r.idb
                      /\ clock' = clock + r.ticks
                      /\ last' = Called("commit", <<failAt>>, r.result)
                      /\ committing' = Idle
                      /\ scanning' =
                             IF ScanTxLive
                                 THEN [scanning EXCEPT
                                          !.behind = FALSE,
                                          !.snap = IF scanning.phase = "cursor"
                                                       /\ scanning.behind
                                                       THEN r.idb ELSE @]
                                 ELSE scanning
    /\ obs' = NoObs
    /\ UNCHANGED <<variant, db, buffer, conns, ghost, hooked, requests, closing>>

\* The add of the commit record and tx.done have been answered: commit() runs
\* to its end.  this.buffer is assigned [] when it does not throw.
CommitDone ==
    /\ committing.phase = "added"
    /\ \E failAt \in {0, Len(committing.buf) + 1, Len(committing.buf) + 2} :
         LET r == commit(db, committing.buf, idb, committing.now, failAt)
             n == committing.cut
         IN  /\ idb' = r.idb
             /\ buffer' = IF r.result = OK THEN r.buffer ELSE buffer
             /\ last' = Called("commit", <<failAt>>, r.result)
             /\ ghost' = IF r.result = OK
                             THEN [pending |-> ghost.pending - n,
                                   committed |-> ghost.committed + n,
                                   commits |-> ghost.commits + 1,
                                   pendingData |->
                                       SubSeq(ghost.pendingData, n + 1,
                                              Len(ghost.pendingData)),
                                   durableData |->
                                       ghost.durableData \o
                                           SubSeq(ghost.pendingData, 1, n),
                                   fresh |-> ghost.fresh]
                             ELSE ghost
             /\ scanning' =
                    IF ScanTxLive
                        THEN [scanning EXCEPT
                                 !.behind = FALSE,
                                 !.snap = IF scanning.phase = "cursor"
                                              /\ scanning.behind
                                              THEN r.idb ELSE @]
                        ELSE scanning
    /\ committing' = Idle
    /\ obs' = NoObs
    /\ UNCHANGED <<variant, db, conns, clock, hooked, requests, closing>>

\* The queries that walk a cursor, and the arguments of the range queries
\* made while a commit() may be in flight.
Scans == {"replay", "getSeqRangeTransactions", "getSeqRangeCommits"}
OverlapStartIds == {1, 2}
OverlapFinishIds == {<<>>, <<1>>}

\* What the query in flight returns when it ends with out.
Answer(result, out) ==
    [op |-> scanning.op, args |-> scanning.args, result |-> result, out |-> out,
     snap |-> scanning.snap, overlap |-> scanning.overlap,
     seen |-> {scanning.got[i].id : i \in 1..Len(scanning.got)}]

\* The query in flight ends: its transaction has finished.
ScanEnds(result, out) ==
    /\ obs' = Answer(result, out)
    /\ scanning' = Idle
    /\ committing' = IF CommitTxLive THEN [committing EXCEPT !.behind = FALSE]
                                     ELSE committing

\* replay() and the range queries up to the first await of the cursor: the
\* checks, the key range, the readonly transaction and openCursor().
ScanBegin ==
    /\ variant = "batched" /\ db # NULL
    /\ ~ScanTxLive
    /\ \E op \in Scans, startId \in OverlapStartIds, finishId \in OverlapFinishIds :
         LET isReplay == op = "replay"
             range == IF isReplay THEN KeyRange(1, <<>>)
                                  ELSE KeyRange(startId, finishId)
             refused == /\ ~isReplay
                        /\ \/ range.error # OK
                           \/ op = "getSeqRangeCommits" /\ startId < 1
             args == IF isReplay THEN <<0>> ELSE <<startId>> \o finishId
         IN  /\ isReplay => (startId = 1 /\ finishId = <<>>)
             /\ IF refused
                    THEN /\ obs' =
                               LET r == IF op = "getSeqRangeCommits"
                                            THEN getSeqRangeCommits(db, idb, startId, finishId)
                                            ELSE getSeqRangeTransactions(db, idb, startId, finishId)
                               IN  [op |-> op, args |-> args, result |-> r.result,
                                    out |-> r.out, snap |-> idb, overlap |-> FALSE,
                                    seen |-> {}]
                         /\ UNCHANGED scanning
                    ELSE /\ scanning' =
                               [phase |-> "cursor", op |-> op, args |-> args,
                                pos |-> range.lower, upper |-> range.upper,
                                got |-> <<>>, todo |-> <<>>, fetched |-> <<>>,
                                behind |-> CommitTxLive, overlap |-> CommitTxLive,
                                snap |-> idb]
                         /\ obs' = NoObs
    /\ UNCHANGED <<variant, db, buffer, idb, conns, clock, last, ghost,
                   hooked, requests, closing, committing>>

\* The transaction ids of a sequence of commit records, in order.
RECURSIVE IdsOf(_, _)
IdsOf(commits, n) ==
    IF n = 0 THEN <<>>
    ELSE IdsOf(commits, n - 1) \o commits[n].transactions

\* The commit infos of getSeqRangeCommits: each commit with the transaction
\* records fetched for it; from is the number of records of earlier commits.
RECURSIVE Infos(_, _, _)
Infos(commits, fetched, n) ==
    IF n = 0 THEN <<>>
    ELSE LET from == Len(IdsOf(commits, n - 1))
             c == commits[n]
         IN  Append(Infos(commits, fetched, n - 1),
                    [id |-> c.id, time |-> c.time,
                     transactions |->
                         SubSeq(fetched, from + 1, from + Len(c.transactions))])

\* The cursor answers: a record, which the loop takes before it calls
\* cursor.continue(), or the end, after which replay() and
\* getSeqRangeTransactions() return and getSeqRangeCommits() goes on to fetch
\* the transactions of the commits it collected, each db.get() in a
\* transaction of its own.
ScanStep ==
    /\ scanning.phase = "cursor"
    /\ MayRun(scanning.behind)
    /\ LET os == IF scanning.op = "getSeqRangeCommits" THEN idb.commit ELSE idb.txn
           rest == OpenCursor(os, [lower |-> scanning.pos, upper |-> scanning.upper])
       IN  IF rest # <<>>
               THEN /\ scanning' = [scanning EXCEPT !.got = Append(@, rest[1]),
                                                    !.pos = rest[1].id + 1]
                    /\ obs' = NoObs
                    /\ UNCHANGED committing
           ELSE IF scanning.op = "replay"
               THEN ScanEnds(OK, DataOf(scanning.got))
           ELSE IF scanning.op = "getSeqRangeTransactions"
               THEN ScanEnds(OK, scanning.got)
           ELSE IF IdsOf(scanning.got, Len(scanning.got)) = <<>>
               THEN ScanEnds(OK, Infos(scanning.got, <<>>, Len(scanning.got)))
               ELSE /\ scanning' =
                          [scanning EXCEPT
                              !.phase = "resolve",
                              !.todo = IdsOf(scanning.got, Len(scanning.got)),
                              !.behind = CommitTxLive]
                    /\ committing' =
                          IF CommitTxLive THEN [committing EXCEPT !.behind = FALSE]
                                          ELSE committing
                    /\ obs' = NoObs
    /\ UNCHANGED <<variant, db, buffer, idb, conns, clock, last, ghost,
                   hooked, requests, closing>>

\* A db.get("txn", transactionId) of getSeqRangeCommits() answers.
ScanGet ==
    /\ scanning.phase = "resolve"
    /\ MayRun(scanning.behind)
    /\ LET t == Get(idb.txn, scanning.todo[1])
           fetched == scanning.fetched \o t
           todo == Tail(scanning.todo)
       IN  IF t = <<>>
               THEN ScanEnds(TRANSACTION_NOT_FOUND, <<>>)
           ELSE IF todo = <<>>
               THEN ScanEnds(OK, Infos(scanning.got, fetched, Len(scanning.got)))
               ELSE /\ scanning' = [scanning EXCEPT !.todo = todo,
                                                    !.fetched = fetched,
                                                    !.behind = CommitTxLive]
                    /\ committing' =
                          IF CommitTxLive THEN [committing EXCEPT !.behind = FALSE]
                                          ELSE committing
                    /\ obs' = NoObs
    /\ UNCHANGED <<variant, db, buffer, idb, conns, clock, last, ghost,
                   hooked, requests, closing>>

NextOverlapping ==
    \/ AppendData
    \/ CommitBegin \/ CommitAdded \/ CommitDone
    \/ ScanBegin \/ ScanStep \/ ScanGet

SpecOverlapping == InitOverlapping /\ [][NextOverlapping]_vars

\* --------------------------------- overlapping open, close and clear
\* open(), close() and clear() of one instance when a call is made before an
\* earlier one has resolved.  Each method is two steps: up to its await, and
\* from there to its end.  The database serves the open and delete requests
\* made for its name in the order they were made.

\* The three methods of the instance's class.
OpenOf(d, base, cs) ==
    IF variant = "batched" THEN open(d, base, cs) ELSE simpleOpen(d, base, cs)
CloseOf(d, cs) ==
    IF variant = "batched" THEN close(d, cs) ELSE simpleClose(d, cs)
ClearOf(d, base) ==
    IF variant = "batched" THEN clear(d, base) ELSE simpleClear(d, base)

\* The continuation of a close() is a microtask: once one has run, those
\* still queued run before any other code of the page.
Draining == closing > 0 /\ db = NULL

\* The calls suspended at an await, and the open() calls among them.
Suspended == Len(requests) + closing
Opening == Cardinality({i \in 1..Len(requests) : requests[i] = "open"})

\* open() up to `await openDB(...)`: the check of this.db, then the request.
OpenBegin ==
    /\ ~Draining
    /\ LET r == OpenOf(db, idb, conns)
       IN  IF r.result # OK
               THEN /\ last' = Called("open", <<>>, r.result)
                    /\ UNCHANGED requests
               ELSE /\ Suspended < MaxFlight
                    /\ Cardinality(conns) + Opening < MaxHandles
                    /\ requests' = Append(requests, "open")
                    /\ UNCHANGED last
    /\ UNCHANGED <<variant, db, buffer, idb, conns, clock, obs, ghost,
                   hooked, closing, committing, scanning>>

\* openDB has resolved: the connection is assigned to this.db.
OpenDone ==
    /\ requests # <<>> /\ Head(requests) = "open"
    /\ closing = 0
    /\ LET r == OpenOf(NULL, idb, conns)
       IN  /\ db' = r.db
           /\ idb' = r.idb
           /\ conns' = r.conns
           /\ last' = Called("open", <<>>, r.result)
    /\ requests' = Tail(requests)
    /\ UNCHANGED <<variant, buffer, clock, obs, ghost,
                   hooked, closing, committing, scanning>>

\* close() up to `await this.db.close()`: the check, then db.close(), which
\* closes the connection at once.
CloseBegin ==
    /\ ~Draining
    /\ LET r == CloseOf(db, conns)
       IN  IF r.result # OK
               THEN /\ last' = Called("close", <<>>, r.result)
                    /\ UNCHANGED <<conns, closing>>
               ELSE /\ Suspended < MaxFlight
                    /\ conns' = r.conns
                    /\ closing' = closing + 1
                    /\ UNCHANGED last
    /\ UNCHANGED <<variant, db, buffer, idb, clock, obs, ghost,
                   hooked, requests, committing, scanning>>

\* The rest of close(): this.db = null.
CloseDone ==
    /\ closing > 0
    /\ db' = CloseOf(db, conns).db
    /\ closing' = closing - 1
    /\ last' = Called("close", <<>>, OK)
    /\ UNCHANGED <<variant, buffer, idb, conns, clock, obs, ghost,
                   hooked, requests, committing, scanning>>

\* clear() up to `await deleteDB(...)`: the check of this.db, then the request.
ClearBegin ==
    /\ ~Draining
    /\ LET r == ClearOf(db, idb)
       IN  IF r.result # OK
               THEN /\ last' = Called("clear", <<>>, r.result)
                    /\ UNCHANGED requests
               ELSE /\ Suspended < MaxFlight
                    /\ requests' = Append(requests, "delete")
                    /\ UNCHANGED last
    /\ UNCHANGED <<variant, db, buffer, idb, conns, clock, obs, ghost,
                   hooked, closing, committing, scanning>>

\* deleteDB has resolved.  The database is deleted once no connection to it
\* is open; until then the request waits (blocked()).
ClearDone ==
    /\ requests # <<>> /\ Head(requests) = "delete"
    /\ closing = 0
    /\ conns = {}
    /\ idb' = ClearOf(NULL, idb).idb
    /\ last' = Called("clear", <<>>, OK)
    /\ requests' = Tail(requests)
    /\ UNCHANGED <<variant, db, buffer, conns, clock, obs, ghost,
                   hooked, closing, committing, scanning>>

NextLifecycle ==
    \/ OpenBegin \/ OpenDone
    \/ CloseBegin \/ CloseDone
    \/ ClearBegin \/ ClearDone

SpecLifecycle == Init /\ [][NextLifecycle]_vars

\* ------------------------------------------------------------ properties
\* post holds everything pre holds and, beyond it, exactly the entries of buf
\* as new transactions in buffer order and exactly one new commit record,
\* whose list is the keys of those transactions in that order.
AllDurable(pre, buf, post) ==
    LET oldT == DOMAIN pre.txn.recs
        newT == DOMAIN post.txn.recs \ oldT
        oldC == DOMAIN pre.commit.recs
        newC == DOMAIN post.commit.recs \ oldC
    IN  /\ oldT \subseteq DOMAIN post.txn.recs
        /\ oldC \subseteq DOMAIN post.commit.recs
        /\ \A k \in oldT : post.txn.recs[k] = pre.txn.recs[k]
        /\ \A k \in oldC : post.commit.recs[k] = pre.commit.recs[k]
        /\ Cardinality(newT) = Len(buf)
        /\ Cardinality(newC) = 1
        /\ \A c \in newC :
              LET ids == post.commit.recs[c].transactions
              IN  /\ Len(ids) = Len(buf)
                  /\ {ids[i] : i \in 1..Len(ids)} = newT
                  /\ \A i, j \in 1..Len(ids) : i < j => ids[i] < ids[j]
                  /\ \A i \in 1..Len(ids) :
                        /\ post.txn.recs[ids[i]].data = buf[i].data
                        /\ post.txn.recs[ids[i]].time = buf[i].time
                        /\ post.txn.recs[ids[i]].id = ids[i]

\* C1: after every commit() on an open log, failed or not, the database
\* either holds all buffered entries in buffer order plus exactly one new
\* commit record listing their ids, or is as it was before the call.
C1_CommitAllOrNothing ==
    (variant = "batched" /\ last.op = "commit" /\ last.preDb # NULL) =>
        \/ idb = last.preIdb
        \/ AllDurable(last.preIdb, last.preBuffer, idb)

\* C1 witness: a commit() of two entries failed at the second add, after the
\* first had been written inside the transaction.
C1_Witness ==
    /\ variant = "batched" /\ last.op = "commit" /\ last.preDb # NULL
    /\ Len(last.preBuffer) = 2 /\ last.args = <<2>>
    /\ last.result # OK /\ idb = last.preIdb

\* C2: whenever a step of commit() on an open log fails (an add of a buffered
\* entry, the add of the commit record, or the completion awaited as tx.done),
\* commit() fails with CommitFailed.
C2_FailedStepGivesCommitFailed ==
    (variant = "batched" /\ last.op = "commit" /\ last.preDb # NULL
        /\ last.args # <<0>>) =>
        last.result = FAILED_TO_COMMIT_TRANSACTIONS_MESSAGE

\* C3: after a commit() on an open log whose store transaction failed the
\* buffer is what it was before the call; after one whose store transaction
\* completed the buffer is empty.
C3_BufferClearedOnlyOnSuccess ==
    (variant = "batched" /\ last.op = "commit" /\ last.preDb # NULL) =>
        IF last.args = <<0>>
            THEN buffer = <<>> /\ last.result = OK
            ELSE buffer = last.preBuffer /\ last.result # OK

\* C3 witness: the transaction of a commit() with a buffered entry was
\* aborted by the store at tx.done, after every add had succeeded.
C3_Witness ==
    /\ variant = "batched" /\ last.op = "commit" /\ last.preDb # NULL
    /\ Len(last.preBuffer) = 1 /\ last.args = <<3>>
    /\ buffer = last.preBuffer

\* C4: when a commit() fails and the next call of open, close, clear, append
\* or commit is a commit() that succeeds, the database holds what it held
\* before the failed commit() and each entry buffered then exactly once, in
\* buffer order, listed by exactly one new commit record.
C4_RetryAfterFailedCommit ==
    (variant = "batched" /\ last.op = "commit" /\ last.result = OK
        /\ last.prior.op = "commit") =>
        AllDurable(last.prior.preIdb, last.prior.preBuffer, idb)

\* C4 witness: a retry that succeeded after a failed commit() of two entries.
C4_Witness ==
    /\ variant = "batched" /\ last.op = "commit" /\ last.result = OK
    /\ last.prior.op = "commit" /\ Len(last.prior.preBuffer) = 2
    /\ Count(idb.txn) = 2

\* C5: close() discards the unflushed buffer: the buffer is empty in every
\* state reached by a successful close().
C5_CloseDiscardsBuffer ==
    (variant = "batched" /\ last.op = "close" /\ last.result = OK) =>
        buffer = <<>>

\* C6: in both variants every data-access call made while the log is closed
\* fails with LogClosed and leaves the database and the buffer as they were.
C6_ClosedLogRejectsAccess ==
    /\ (last.op \in {"append", "commit"} /\ last.preDb = NULL) =>
           /\ last.result = LOG_CLOSED_MESSAGE
           /\ idb = last.preIdb
           /\ buffer = last.preBuffer
    /\ (db = NULL /\ obs.op \in {"replay", "getSeqRangeTransactions",
                                  "getSeqRangeCommits", "countTransactions",
                                  "countCommits"}) =>
           /\ obs.result = LOG_CLOSED_MESSAGE
           /\ obs.out = <<>>

\* C6 witness: commit() on a log closed with an entry still buffered and a
\* database that exists.
C6_Witness ==
    /\ variant = "batched" /\ last.op = "commit" /\ last.preDb = NULL
    /\ buffer # <<>> /\ idb.version = 1

\* C7: open() on an open log fails with AlreadyOpen and leaves the log open
\* with the connection it held, so that close() then succeeds; open() on a
\* closed log succeeds and isOpen() is then true.
C7_OpenOnlyFromClosed ==
    (last.op = "open") =>
        IF last.preDb # NULL
            THEN /\ last.result = LOG_ALREADY_OPEN_MESSAGE
                 /\ db = last.preDb
                 /\ conns = last.preConns
                 /\ db \in conns
                 /\ idb = last.preIdb
                 /\ close(db, conns).result = OK
                 /\ simpleClose(db, conns).result = OK
            ELSE /\ last.result = OK
                 /\ isOpen(db) /\ simpleIsOpen(db)
                 /\ db \in conns

\* C7 witness: open() was called on an open log.
C7_Witness ==
    /\ last.op = "open" /\ last.preDb # NULL
    /\ last.result = LOG_ALREADY_OPEN_MESSAGE

\* C8: close() on a closed log fails with AlreadyClosed and leaves it closed;
\* close() on an open log succeeds, releases the connection, leaves isOpen()
\* false, and open() then succeeds.
C8_CloseOnlyFromOpen ==
    (last.op = "close") =>
        /\ db = NULL
        /\ ~isOpen(db) /\ ~simpleIsOpen(db)
        /\ IF last.preDb = NULL
               THEN /\ last.result = LOG_ALREADY_CLOSED_MESSAGE
                    /\ conns = last.preConns
               ELSE /\ last.result = OK
                    /\ last.preDb \notin conns
                    /\ open(db, idb, conns).result = OK
                    /\ simpleOpen(db, idb, conns).result = OK

\* C8 witness: close() was called on a log closed by an earlier close().
C8_Witness ==
    /\ last.op = "close" /\ last.preDb = NULL
    /\ last.result = LOG_ALREADY_CLOSED_MESSAGE /\ idb.version = 1

\* C9: clear() on an open log fails with CannotClearWhileOpen, the log stays
\* open and the database keeps every transaction and commit.
C9_ClearRejectedWhileOpen ==
    (last.op = "clear" /\ last.preDb # NULL) =>
        /\ last.result = LOG_OPEN_CANNOT_CLEAR_MESSAGE
        /\ db = last.preDb
        /\ idb = last.preIdb

\* C9 witness: clear() was called on an open log that holds a transaction.
C9_Witness ==
    /\ variant = "batched" /\ last.op = "clear" /\ last.preDb # NULL
    /\ Count(idb.txn) > 0

\* C10: the transaction count is the number of accepted appends that a
\* successful commit() followed, the commit count is the number of successful
\* commits, empty ones included, and append() changes neither.
C10_CountsMatchCommittedAppends ==
    (variant = "batched") =>
        /\ Count(idb.txn) = ghost.committed
        /\ Count(idb.commit) = ghost.commits
        /\ (obs.op = "countTransactions" /\ obs.result = OK) =>
               obs.out = <<ghost.committed>>
        /\ (obs.op = "countCommits" /\ obs.result = OK) =>
               obs.out = <<ghost.commits>>
        /\ (last.op = "append") => idb = last.preIdb

\* C10 witness: countTransactions() answered after two successful commits,
\* one of them of an empty buffer.
C10_Witness ==
    /\ variant = "batched" /\ obs.op = "countTransactions" /\ obs.result = OK
    /\ ghost.commits = 2 /\ ghost.committed = 1

\* The records replay() walks, in the order it delivers them.
Replayed(v, base) ==
    OpenCursor(IF v = "batched" THEN base.txn ELSE base.simpletxn, KeyRange(1, <<>>))

\* The store of transactions of the variant.
TxnStore(v, base) == IF v = "batched" THEN base.txn ELSE base.simpletxn

RECURSIVE InRange(_, _, _, _)
InRange(os, k, startId, finishId) ==
    IF k > os.gen THEN <<>>
    ELSE IF /\ k \in DOMAIN os.recs
            /\ startId <= k
            /\ (finishId = <<>> \/ k <= finishId[1])
        THEN <<os.recs[k]>> \o InRange(os, k + 1, startId, finishId)
        ELSE InRange(os, k + 1, startId, finishId)

\* The arguments of the range query just answered.
ObsStart == obs.args[1]
ObsFinish == SubSeq(obs.args, 2, Len(obs.args))

\* C12: in both variants, for every startId >= 1 and every finishId,
\* finishId = 0 and finishId < startId included, getSeqRangeTransactions on
\* the open log returns exactly the durable transactions with
\* startId <= id <= finishId in ascending order, and those with id >= startId
\* when finishId is omitted.
C12_RangeTransactionsExact ==
    (obs.op = "getSeqRangeTransactions" /\ db # NULL /\ ObsStart >= 1) =>
        /\ obs.result = OK
        /\ obs.out = InRange(TxnStore(variant, idb), 1, ObsStart, ObsFinish)

\* C13: in both variants getSeqRangeTransactions on the open log fails with
\* InvalidSequenceId whenever startId < 1, and returns no record.
C13_RangeTransactionsRejectsStartBelowOne ==
    (obs.op = "getSeqRangeTransactions" /\ db # NULL /\ ObsStart < 1) =>
        /\ obs.result = INVALID_SEQUENCE_ID_MESSAGE
        /\ obs.out = <<>>

\* What getSeqRangeCommits is to return for one commit record: its id, its
\* time and the transaction records its list names, in the order of the list.
InfoOf(base, c) ==
    [id |-> c.id, time |-> c.time,
     transactions |->
         [j \in 1..Len(c.transactions) |-> base.txn.recs[c.transactions[j]]]]

\* The payloads of the transactions of a sequence of commit infos, flattened.
RECURSIVE FlatData(_, _)
FlatData(infos, n) ==
    IF n = 0 THEN <<>>
    ELSE FlatData(infos, n - 1) \o DataOf(infos[n].transactions)

\* C14: for every startId >= 1 and every finishId, getSeqRangeCommits on the
\* open log returns exactly the commits with startId <= id <= finishId (with
\* id >= startId when finishId is omitted) in ascending id order, each with
\* its id, its time and its transactions as full records in the order they
\* were pushed onto the buffer.
C14_RangeCommitsExact ==
    (obs.op = "getSeqRangeCommits" /\ db # NULL /\ ObsStart >= 1) =>
        LET cs == InRange(idb.commit, 1, ObsStart, ObsFinish)
        IN  /\ obs.result = OK
            /\ obs.out = [i \in 1..Len(cs) |-> InfoOf(idb, cs[i])]
            /\ (ObsStart = 1 /\ ObsFinish = <<>>) =>
                   FlatData(obs.out, Len(obs.out)) = ghost.durableData

\* C15: getSeqRangeCommits with startId < 1 fails with InvalidSequenceId on
\* the open log, whatever finishId is, and with LogClosed on the closed log;
\* it returns nothing.
C15_RangeCommitsRejectsStartBelowOne ==
    (obs.op = "getSeqRangeCommits" /\ ObsStart < 1) =>
        /\ obs.out = <<>>
        /\ obs.result = IF db = NULL THEN LOG_CLOSED_MESSAGE
                         ELSE INVALID_SEQUENCE_ID_MESSAGE

\* C15 witness: getSeqRangeCommits(0, 1) was refused on an open log that
\* holds a commit.
C15_Witness ==
    /\ obs.op = "getSeqRangeCommits" /\ db # NULL /\ obs.args = <<0, 1>>
    /\ obs.result = INVALID_SEQUENCE_ID_MESSAGE /\ Count(idb.commit) > 0


\* The places (commit id, position) where a commit's list names transaction t.
Referrers(base, t) ==
    {<<c, j>> \in (DOMAIN base.commit.recs) \X (1..base.txn.gen) :
        /\ j <= Len(base.commit.recs[c].transactions)
        /\ base.commit.recs[c].transactions[j] = t}

\* C16: in every state of the batched log each id in a commit's list is the
\* key of a durable transaction, each durable transaction is named by exactly
\* one commit, once, and getSeqRangeCommits never fails with "Transaction
\* not found.".
C16_ReferentialIntegrity ==
    (variant = "batched") =>
        /\ \A c \in DOMAIN idb.commit.recs :
              \A j \in 1..Len(idb.commit.recs[c].transactions) :
                  idb.commit.recs[c].transactions[j] \in DOMAIN idb.txn.recs
        /\ \A t \in DOMAIN idb.txn.recs : Cardinality(Referrers(idb, t)) = 1
        /\ obs.result # TRANSACTION_NOT_FOUND
        /\ \A a \in StartIds, b \in FinishIds :
              getSeqRangeCommits(db, idb, a, b).result # TRANSACTION_NOT_FOUND

\* C16 witness: getSeqRangeCommits returned two commits, one of them empty,
\* of a log that holds one transaction.
C16_Witness ==
    /\ variant = "batched" /\ obs.op = "getSeqRangeCommits" /\ obs.result = OK
    /\ Len(obs.out) = 2 /\ Count(idb.txn) = 1 /\ Count(idb.commit) = 2

\* C17: in every state the transaction ids are exactly 1..countTransactions()
\* and the commit ids exactly 1..countCommits(), also after a failed commit()
\* whose adds had been given ids.
C17_IdsContiguousFromOne ==
    /\ DOMAIN idb.txn.recs = 1..Count(idb.txn)
    /\ DOMAIN idb.commit.recs = 1..Count(idb.commit)
    /\ DOMAIN idb.simpletxn.recs = 1..Count(idb.simpletxn)
    /\ \A k \in DOMAIN idb.txn.recs : idb.txn.recs[k].id = k
    /\ \A k \in DOMAIN idb.commit.recs : idb.commit.recs[k].id = k

\* C17 witness: a commit() of one entry succeeded right after one whose
\* transaction the store aborted at tx.done, when both adds had their ids.
C17_Witness ==
    /\ variant = "batched" /\ last.op = "commit" /\ last.result = OK
    /\ last.prior.op = "commit" /\ last.prior.result = InvalidStateError
    /\ Len(last.prior.preBuffer) = 1
    /\ Count(idb.txn) = 1 /\ Count(idb.commit) = 1

\* C18: commit() on an open log with an empty buffer, when the store does not
\* fail, succeeds and writes exactly one commit record with an empty list:
\* the commit count grows by one and the transaction count stays.
C18_EmptyCommitWritesCommitRecord ==
    (/\ variant = "batched" /\ last.op = "commit" /\ last.preDb # NULL
     /\ last.preBuffer = <<>> /\ last.args = <<0>>) =>
        /\ last.result = OK
        /\ countCommits(db, idb).out = <<Count(last.preIdb.commit) + 1>>
        /\ countTransactions(db, idb).out = <<Count(last.preIdb.txn)>>
        /\ idb.txn = last.preIdb.txn
        /\ \A c \in DOMAIN idb.commit.recs \ DOMAIN last.preIdb.commit.recs :
              idb.commit.recs[c].transactions = <<>>

\* C18 witness: an empty commit() succeeded on a log that already held a
\* commit with a transaction.
C18_Witness ==
    /\ variant = "batched" /\ last.op = "commit" /\ last.preDb # NULL
    /\ last.preBuffer = <<>> /\ last.result = OK
    /\ Count(idb.commit) = 2 /\ Count(idb.txn) = 1

\* What the queries of an open log show of a database: the counts and the
\* data replay() delivers.
Shown(v, base) ==
    [transactions |-> Count(TxnStore(v, base)),
     commits |-> Count(base.commit),
     replay |-> DataOf(Replayed(v, base))]

\* C19: after close() and then open(), with no clear() between, the counts
\* and the data replay() delivers are what they were right before close().
C19_CloseReopenKeepsContents ==
    (last.op = "open" /\ last.result = OK /\ last.prior.op = "close") =>
        /\ Shown(variant, idb) = Shown(variant, last.prior.preIdb)
        /\ (variant = "batched") =>
               /\ countTransactions(db, idb) =
                      countTransactions(db, last.prior.preIdb)
               /\ countCommits(db, idb) = countCommits(db, last.prior.preIdb)
               /\ replay(db, idb, 0) = replay(db, last.prior.preIdb, 0)
        /\ (variant = "simple") =>
               /\ simpleCountTransactions(db, idb) =
                      simpleCountTransactions(db, last.prior.preIdb)
               /\ simpleReplay(db, idb, 0) = simpleReplay(db, last.prior.preIdb, 0)

\* C19 witness: a batched log with two transactions was closed and reopened.
C19_Witness ==
    /\ variant = "batched" /\ last.op = "open" /\ last.result = OK
    /\ last.prior.op = "close" /\ Count(last.prior.preIdb.txn) = 2

\* C20: a successful clear() leaves no transaction and no commit, and as long
\* as no append() is accepted after it none appears: the counts stay 0,
\* replay() delivers nothing and commit() writes no transaction.
C20_ClearDeletesEverything ==
    /\ (last.op = "clear" /\ last.result = OK) =>
           /\ Count(idb.txn) = 0 /\ Count(idb.commit) = 0
           /\ Count(idb.simpletxn) = 0
    /\ ghost.fresh =>
           /\ Count(idb.txn) = 0 /\ Count(idb.simpletxn) = 0
           /\ (obs.op = "replay" /\ obs.result = OK) => obs.out = <<>>
           /\ (obs.op = "countTransactions" /\ obs.result = OK) => obs.out = <<0>>

\* C21: in the simple variant, when append(d) on the open log succeeds the
\* count is one more than before the call and d is the last value replay()
\* delivers; when the add or the store transaction fails, append() fails and
\* the count and the database are what they were.
C21_SimpleAppendDurable ==
    (variant = "simple" /\ last.op = "append" /\ last.preDb # NULL) =>
        IF last.result = OK
            THEN /\ last.args[2] = 0
                 /\ simpleCountTransactions(db, idb).out =
                        <<simpleCountTransactions(db, last.preIdb).out[1] + 1>>
                 /\ LET out == simpleReplay(db, idb, 0).out
                    IN  /\ out # <<>>
                        /\ out[Len(out)] = last.args[1]
                        /\ SubSeq(out, 1, Len(out) - 1) =
                               simpleReplay(db, last.preIdb, 0).out
            ELSE /\ last.args[2] # 0
                 /\ last.result = StoreError
                 /\ idb = last.preIdb
                 /\ simpleCountTransactions(db, idb) =
                        simpleCountTransactions(db, last.preIdb)

\* C21 witness: an append("B") whose store transaction aborted while
\* committing, on a simple log that holds "A".
C21_Witness ==
    /\ variant = "simple" /\ last.op = "append" /\ last.preDb # NULL
    /\ last.args = <<"B", 2>> /\ last.result = StoreError
    /\ simpleReplay(db, idb, 0).out = <<"A">>

\* C22: when the callback throws while replay() hands it a record, replay()
\* fails with that exception, the callback was called for the records up to
\* that one and for none with a larger id, the log is still open, and the
\* database and the buffer still hold the accepted entries.
C22_ReplayCallbackThrows ==
    (/\ obs.op = "replay" /\ db # NULL
     /\ obs.args[1] \in 1..Len(ghost.durableData)) =>
        /\ obs.result = CallbackError
        /\ obs.out = SubSeq(ghost.durableData, 1, obs.args[1])
        /\ isOpen(db) /\ simpleIsOpen(db) /\ db \in conns
        /\ DataOf(Replayed(variant, idb)) = ghost.durableData
        /\ (variant = "batched") => DataOf(buffer) = ghost.pendingData

\* C22 witness: the callback threw at the first of two records of a batched
\* log.
C22_Witness ==
    /\ variant = "batched" /\ obs.op = "replay" /\ obs.args = <<1>>
    /\ obs.result = CallbackError /\ obs.out = <<"A">>
    /\ ghost.durableData = <<"A", "B">>

\* C23: a callback is invoked only by a call whose precondition held and
\* whose store write did not fail, and what the call did stands when the
\* callback is invoked and after it throws: after onopen the log is open,
\* after onclose it is closed and its connection released, after onclear the
\* database is deleted, after onappend the entry is the last of the buffer
\* (batched) or the last durable transaction (simple).
C23_HooksAfterTransition ==
    /\ (hooked.name # "none") =>
           last.result = IF hooked.threw THEN HookError ELSE OK
    /\ (last.result \notin {OK, HookError}) => hooked = NoHook
    /\ (last.result = HookError) => hooked.threw
    /\ (hooked.name = "onopen") =>
           /\ last.op = "open" /\ last.preDb = NULL
           /\ isOpen(db) /\ simpleIsOpen(db) /\ db \in conns
           /\ idb.version = 1
    /\ (hooked.name = "onclose") =>
           /\ last.op = "close" /\ last.preDb # NULL
           /\ ~isOpen(db) /\ ~simpleIsOpen(db) /\ last.preDb \notin conns
    /\ (hooked.name = "onclear") =>
           /\ last.op = "clear" /\ last.preDb = NULL
           /\ idb = NoDB
    /\ (hooked.name = "onappend") =>
           /\ last.op = "append" /\ last.preDb # NULL
           /\ IF variant = "batched"
                  THEN /\ Len(buffer) = Len(last.preBuffer) + 1
                       /\ SubSeq(buffer, 1, Len(last.preBuffer)) = last.preBuffer
                       /\ buffer[Len(buffer)].data = last.args[1]
                  ELSE LET recs == Replayed("simple", idb)
                       IN  /\ Len(recs) = Count(last.preIdb.simpletxn) + 1
                           /\ recs[Len(recs)].data = last.args[1]

\* C23 witness: onclear threw after clear() had deleted a database with a
\* committed transaction of the batched log.
C23_Witness ==
    /\ variant = "batched" /\ hooked = [name |-> "onclear", threw |-> TRUE]
    /\ Count(last.preIdb.txn) > 0 /\ idb = NoDB

\* The ids a commit record lists.
Listed(c) == {c.transactions[j] : j \in 1..Len(c.transactions)}

\* C24: a replay() or range query that overlaps a commit() on the open
\* batched log returns what it would return, alone, on the database as it was
\* when the query's transaction started; of every commit it has delivered all
\* transactions or none; a commit() that started after the query has no part
\* in what the query returns.
C24_ScanSeesSnapshot ==
    (obs.op \in Scans) =>
        /\ LET a == obs.args[1]
               b == SubSeq(obs.args, 2, Len(obs.args))
               alone == IF obs.op = "replay" THEN replay(db, obs.snap, 0)
                        ELSE IF obs.op = "getSeqRangeTransactions"
                            THEN getSeqRangeTransactions(db, obs.snap, a, b)
                            ELSE getSeqRangeCommits(db, obs.snap, a, b)
           IN  obs.result = alone.result /\ obs.out = alone.out
        /\ (obs.op = "replay" \/ obs.args = <<1>>) =>
               \A c \in DOMAIN idb.commit.recs :
                   LET ids == Listed(idb.commit.recs[c])
                   IN  IF obs.op = "getSeqRangeCommits"
                           THEN \A i \in 1..Len(obs.out) :
                                   obs.out[i].id = c =>
                                       /\ Len(obs.out[i].transactions) =
                                              Len(idb.commit.recs[c].transactions)
                                       /\ \A j \in 1..Len(obs.out[i].transactions) :
                                              obs.out[i].transactions[j].id =
                                                  idb.commit.recs[c].transactions[j]
                           ELSE ids \subseteq obs.seen \/ ids \cap obs.seen = {}

\* C24 witness: getSeqRangeCommits(1) returned the one commit there was when
\* it began, with its transaction, and a commit() made while it was in flight
\* had written a second commit by the time it returned.
C24_Witness ==
    /\ obs.op = "getSeqRangeCommits" /\ obs.args = <<1>> /\ obs.overlap
    /\ obs.result = OK /\ Len(obs.out) = 1 /\ Len(obs.out[1].transactions) = 1
    /\ Count(idb.commit) = 2 /\ Count(idb.txn) = 2

\* C26: once no commit() is in flight on the open batched log, every entry an
\* append() accepted, also one accepted while a commit() was suspended, is
\* durable or still in the buffer: the durable payloads followed by the
\* buffered ones are the accepted payloads in the order of the calls.
C26_NoAppendLostAcrossCommit ==
    (variant = "batched" /\ db # NULL /\ ~CommitTxLive) =>
        DataOf(Replayed("batched", idb)) \o DataOf(buffer) =
            ghost.durableData \o ghost.pendingData

\* C25: a deleteDB request of clear() is never made, and never waits, while
\* the instance holds a connection or while an open() made before it is
\* awaiting the store: clear() is refused with CannotClearWhileOpen in both
\* cases.
C25_ClearOnlyWithoutHandle ==
    \A i \in 1..Len(requests) :
        (requests[i] = "delete") =>
            /\ db = NULL
            /\ \A j \in 1..(i - 1) : requests[j] # "open"

\* C27: at most one open() of the instance awaits the store at any time (a
\* second one is refused with AlreadyOpen), and every open connection to the
\* database is the one held in this.db.
C27_OneHandlePerSession ==
    /\ Opening <= 1
    /\ conns \subseteq {db}
====
